---- MODULE Spec2Model ----
(***************************************************************************)
(* Wake-word pipeline of Jeeves: scripts/wake_listener.py (listener mode)  *)
(* and scripts/wake_score_stdin.py (scoring mode).  One run of one of the  *)
(* two programs is modelled as a state machine: pc is the position in      *)
(* main(), the other variables are main()'s locals, the two output         *)
(* channels, the input stream and the wall clock.                          *)
(*                                                                         *)
(* Units: scores are in tenths (0.5 is 5), times are in half seconds       *)
(* (2.5 s is 5); byte counts are bytes.                                    *)
(***************************************************************************)
EXTENDS Integers, Sequences, FiniteSets, TLC

VARIABLES
    mode,        \* which program runs: "listener" or "scoring"
    argv,        \* sys.argv
    pc,          \* position in the program
    status,      \* process exit status, NotExited while running
    cause,       \* why the process ended
    unhandled,   \* an exception propagated out of the program
    out,         \* lines written to sys.stdout
    err,         \* diagnostics written to sys.stderr
    pipeOpen,    \* the reader of sys.stdout is still there
    clock,       \* what time.time() returns now
    stream,      \* total number of bytes the producer writes to stdin
    pos,         \* bytes of stdin consumed so far
    raw,         \* len(raw) of the last read
    reads,       \* number of sys.stdin.buffer.read calls made
    calls,       \* the blocks handed to model.predict, in order
    loaded,      \* Model([model_path]) has returned
    keys,        \* model.models.keys(), in order
    model_name,  \* the active keyword
    score,       \* score of the frame being processed
    scores,      \* active-keyword scores of all scored frames, in order
    last_wake,   \* listener: time of the last wake
    stamps,      \* listener: number of assignments to last_wake in the loop
    wakes,       \* listener: for each WAKE written, last_wake and the frame number
    max_score,   \* scoring: running maximum
    scenario,    \* listener: how far the run has followed Scenario B
    lo, hi,      \* converter: the two bytes of one sample of the block
    samples,     \* converter: that sample after np.frombuffer
    samples_f    \* converter: that sample after astype and the division

vars == <<mode, argv, pc, status, cause, unhandled, out, err, pipeOpen, clock,
          stream, pos, raw, reads, calls, loaded, keys, model_name, score,
          scores, last_wake, stamps, wakes, max_score, scenario, lo, hi,
          samples, samples_f>>

(***************************************************************************)
(* Bounds of the model.                                                    *)
(***************************************************************************)
MaxFrames == 3          \* full frames in the longest input stream
MaxClock == 12          \* the clock stops advancing here (half seconds)

(***************************************************************************)
(* Program constants.                                                      *)
(***************************************************************************)
chunk_bytes == 2560         \* wake_listener.py:50, wake_score_stdin.py:24
FrameSamples == 1280        \* len(samples) != 1280
SampleBytes == 2            \* dtype=np.int16
threshold == 5              \* 0.5, in tenths
debounce_seconds == 5       \* 2.5 s, in half seconds
NotExited == -1             \* no exit status yet
ExitOk == 0                 \* main() returned
ExitError == 1              \* sys.exit(1), or an unhandled exception
ExitSigint == 130           \* an unhandled KeyboardInterrupt

(***************************************************************************)
(* Inputs.                                                                 *)
(***************************************************************************)
Modes == {"listener", "scoring"}
Argvs == {<<"prog">>, <<"prog", "">>, <<"prog", "hey_jeeves.onnx">>}
Tails == {0, 1, chunk_bytes - 1}
StreamLens == {k * chunk_bytes + r : k \in 0..MaxFrames, r \in Tails}
Scores == {0, 4, 5, 6}
KeyLists == {<<>>, <<"hey_jeeves">>}
InitClocks == {0, debounce_seconds}

Range(s) == {s[i] : i \in 1..Len(s)}
Min(a, b) == IF a < b THEN a ELSE b

\* the wake line carrying the keyword next to the token
WakeLine_WithName == <<"WAKE", "hey_jeeves">>

\* the lines of the two channels
WakeLine == <<"WAKE">>
MaxLine(v) == <<"MAX", v>>
ErrNeedPath == "WAKE_LISTENER_ERROR: need model path"
ErrInstall == "WAKE_LISTENER_ERROR: install openwakeword and numpy"
ErrLoad == "WAKE_LISTENER_ERROR: failed to load model"
ErrFrame == "WAKE_LISTENER_ERROR: exception"
Traceback == "Traceback (most recent call last)"

(***************************************************************************)
(* Pure parts of the two programs.                                         *)
(***************************************************************************)
\* model_path = sys.argv[1] if len(sys.argv) > 1 else None
ModelPath(a) == IF Len(a) > 1 THEN a[2] ELSE "None"

\* the test written as "model_path is None"
NoModelPath_OnlyNone(a) == ModelPath(a) = "None"

\* not model_path
NoModelPath(a) == ModelPath(a) = "None" \/ ModelPath(a) = ""

\* sys.stdin.buffer.read(n) on a blocking stream: n bytes, fewer only at the end
ReadLen(n, remaining) == Min(n, remaining)

\* the test without its length comparison
ShortRead_OnlyEmpty(n) == n = 0

\* the size test written with <= instead of <
ShortRead_OffByOne(n) == n = 0 \/ n <= chunk_bytes

\* not raw or len(raw) < chunk_bytes
ShortRead(n) == n = 0 \/ n < chunk_bytes

\* len(np.frombuffer(raw, dtype=np.int16))
SampleCount(n) == n \div SampleBytes

\* predictions.get(model_name, 0.0)
Get(pred, name) == IF name \in DOMAIN pred THEN pred[name] ELSE 0

\* the dictionaries model.predict can return
Predictions == [Range(keys) -> Scores]

\* listener: model_name = "hey_jeeves"; for name in keys: model_name = name; break
FirstKeyOrDefault(ks) == IF Len(ks) > 0 THEN ks[1] ELSE "hey_jeeves"

\* the decision with both comparisons strict
ShouldWake_Strict(s, now, last) == s > threshold /\ (now - last) > debounce_seconds

\* the decision without its debounce conjunct
ShouldWake_NoDebounce(s, now, last) == s >= threshold

\* the decision without its threshold conjunct
ShouldWake_NoThreshold(s, now, last) == (now - last) >= debounce_seconds

\* listener: score >= threshold and (time.time() - last_wake) >= debounce_seconds
ShouldWake(s, now, last) == s >= threshold /\ (now - last) >= debounce_seconds

\* the running maximum with the comparison reversed
FoldMax_Less(s, m) == IF s < m THEN s ELSE m

\* the running maximum overwritten by every frame
FoldMax_Last(s, m) == s

\* scoring: if score > max_score: max_score = score
FoldMax(s, m) == IF s > m THEN s ELSE m

(***************************************************************************)
(* Scenario B of the specification, followed by a history variable: the    *)
(* first three frames score 0.6 and are decided 0 s, 1 s and 3 s after the *)
(* first one; every later frame scores below the threshold.  scenario.k is *)
(* the number of scenario frames decided so far, scenario.t0 the clock at  *)
(* the first; k = -1 when the run has left the scenario.                   *)
(***************************************************************************)
ScenarioScore == threshold + 1     \* 0.6
ScenarioOffsets == <<0, 2, 6>>
ScenarioFrames == Len(ScenarioOffsets)
ScenarioStart == [k |-> 0, t0 |-> 0]
ScenarioOff == [k |-> -1, t0 |-> 0]

\* the frame-th frame is decided at time now with score s
ScenarioStep(sc, frame, s, now) ==
    IF sc.k = ScenarioFrames /\ frame > ScenarioFrames /\ s < threshold
      THEN sc
    ELSE IF sc.k = frame - 1 /\ frame <= ScenarioFrames /\ s = ScenarioScore
              /\ (frame = 1 \/ now = sc.t0 + ScenarioOffsets[frame])
      THEN [k |-> frame, t0 |-> IF frame = 1 THEN now ELSE sc.t0]
    ELSE ScenarioOff

\* last_wake is assigned at time now: in the scenario that is the time at
\* which the frame was decided
ScenarioStamp(sc, now) ==
    IF sc.k >= 1 /\ now = sc.t0 + ScenarioOffsets[sc.k] THEN sc ELSE ScenarioOff

(***************************************************************************)
(* Initial state: the process has been started, nothing has run.           *)
(***************************************************************************)
Init ==
    /\ mode \in Modes
    /\ argv \in Argvs
    /\ stream \in StreamLens
    /\ clock \in InitClocks
    /\ pc = IF mode = "listener" THEN "argv" ELSE "import"
    /\ status = NotExited
    /\ cause = "none"
    /\ unhandled = FALSE
    /\ out = <<>>
    /\ err = <<>>
    /\ pipeOpen = TRUE
    /\ pos = 0
    /\ raw = 0
    /\ reads = 0
    /\ calls = <<>>
    /\ loaded = FALSE
    /\ keys = <<>>
    /\ model_name = "unset"
    /\ score = 0
    /\ scores = <<>>
    /\ last_wake = 0
    /\ stamps = 0
    /\ wakes = <<>>
    /\ max_score = 0
    /\ scenario = ScenarioStart
    /\ lo = 0 /\ hi = 0
    /\ samples = 0
    /\ samples_f = [num |-> 0, den |-> 1]

Running == pc # "exited"

\* the process ends: sys.exit(code), return from main(), or a propagated exception
Exit(code, why, propagated) ==
    /\ pc' = "exited"
    /\ status' = code
    /\ cause' = why
    /\ unhandled' = propagated

Goto(label) ==
    /\ pc' = label
    /\ UNCHANGED <<status, cause, unhandled>>

\* an exception nothing catches: the interpreter prints the traceback
Crash(code, why) ==
    /\ Exit(code, why, TRUE)
    /\ err' = Append(err, Traceback)

input == <<mode, argv, stream>>
conv == <<lo, hi, samples, samples_f>>
locals == <<raw, pos, reads, calls, loaded, keys, model_name, score, scores,
            last_wake, stamps, wakes, max_score>>

(***************************************************************************)
(* Environment.                                                            *)
(***************************************************************************)
\* wall-clock time passes
Tick ==
    /\ Running
    /\ clock < MaxClock
    /\ clock' = clock + 1
    /\ UNCHANGED <<input, conv, scenario, pc, status, cause, unhandled, out, err, pipeOpen, locals>>

\* the consumer of stdout goes away
ClosePipe ==
    /\ Running
    /\ pipeOpen
    /\ pipeOpen' = FALSE
    /\ UNCHANGED <<input, conv, scenario, pc, status, cause, unhandled, out, err, clock, locals>>

\* a KeyboardInterrupt is delivered to the process
LoopPcs == {"read", "score", "decide", "stamp", "print"}

\* wake_listener.py: except (BrokenPipeError, KeyboardInterrupt): pass
L_OnInterrupt ==
    /\ Exit(ExitOk, "interrupt", FALSE)
    /\ UNCHANGED err

Interrupt ==
    /\ Running
    /\ IF mode = "listener" /\ pc \in LoopPcs
         THEN L_OnInterrupt
         ELSE Crash(ExitSigint, "interrupt")
    /\ UNCHANGED <<input, conv, scenario, out, pipeOpen, clock, locals>>

(***************************************************************************)
(* Listener mode: wake_listener.py main().                                 *)
(***************************************************************************)
\* lines 24-27
L_Argv ==
    /\ mode = "listener" /\ pc = "argv"
    /\ IF NoModelPath(argv)
         THEN /\ err' = Append(err, ErrNeedPath)
              /\ Exit(ExitError, "noarg", FALSE)
         ELSE /\ Goto("import")
              /\ UNCHANGED err
    /\ UNCHANGED <<input, conv, scenario, out, pipeOpen, clock, locals>>

\* lines 32-34: except ImportError
L_OnImportError ==
    /\ err' = Append(err, ErrInstall)
    /\ Exit(ExitError, "importerror", FALSE)

\* lines 29-34
L_Import ==
    /\ mode = "listener" /\ pc = "import"
    /\ \/ Goto("load") /\ UNCHANGED err
       \/ L_OnImportError
    /\ UNCHANGED <<input, conv, scenario, out, pipeOpen, clock, locals>>

\* the handler without its diagnostic
L_OnLoadError_Silent ==
    /\ Exit(ExitError, "loadfail", FALSE)
    /\ UNCHANGED <<err, loaded, keys, model_name, last_wake>>

\* lines 40-42: except Exception
L_OnLoadError ==
    /\ err' = Append(err, ErrLoad)
    /\ Exit(ExitError, "loadfail", FALSE)
    /\ UNCHANGED <<loaded, keys, model_name, last_wake>>

\* lines 36-53
L_Load ==
    /\ mode = "listener" /\ pc = "load"
    /\ \/ \E ks \in KeyLists :
            /\ loaded' = TRUE
            /\ keys' = ks
            /\ model_name' = FirstKeyOrDefault(ks)
            /\ last_wake' = 0
            /\ Goto("read")
            /\ UNCHANGED err
       \/ L_OnLoadError
    /\ UNCHANGED <<input, conv, scenario, out, pipeOpen, clock, raw, pos, reads, calls, score,
                   scores, stamps, wakes, max_score>>

\* lines 57-59
L_Read ==
    /\ mode = "listener" /\ pc = "read"
    /\ raw' = ReadLen(chunk_bytes, stream - pos)
    /\ pos' = pos + raw'
    /\ reads' = reads + 1
    /\ IF ShortRead(raw')
         THEN Exit(ExitOk, "eof", FALSE)
         ELSE Goto("score")
    /\ UNCHANGED <<input, conv, scenario, out, err, pipeOpen, clock, calls, loaded, keys,
                   model_name, score, scores, last_wake, stamps, wakes, max_score>>

\* the handler reporting the error and going on with the next frame
L_OnFrameException_Continue ==
    /\ err' = Append(err, ErrFrame)
    /\ pc' = "read"
    /\ cause' = "frameexc"
    /\ UNCHANGED <<status, unhandled>>

\* lines 72-74: except Exception
L_OnFrameException ==
    /\ err' = Append(err, ErrFrame)
    /\ Exit(ExitError, "frameexc", FALSE)

\* lines 60-66
L_Score ==
    /\ mode = "listener" /\ pc = "score"
    /\ IF SampleCount(raw) # FrameSamples
         THEN /\ Goto("read")
              /\ UNCHANGED <<err, calls, score, scores>>
         ELSE /\ calls' = Append(calls, [off |-> pos - raw, len |-> raw])
              /\ \/ \E pred \in Predictions :
                      /\ score' = Get(pred, model_name)
                      /\ scores' = Append(scores, score')
                      /\ Goto("decide")
                      /\ UNCHANGED err
                 \/ /\ L_OnFrameException
                    /\ UNCHANGED <<score, scores>>
    /\ UNCHANGED <<input, conv, scenario, out, pipeOpen, clock, raw, pos, reads, loaded, keys,
                   model_name, last_wake, stamps, wakes, max_score>>

\* line 67
L_Decide ==
    /\ mode = "listener" /\ pc = "decide"
    /\ scenario' = ScenarioStep(scenario, Len(scores), score, clock)
    /\ IF ShouldWake(score, clock, last_wake)
         THEN Goto("stamp")
         ELSE Goto("read")
    /\ UNCHANGED <<input, conv, out, err, pipeOpen, clock, locals>>

\* the assignment going back to the read without the print
L_Stamp_NoPrint ==
    /\ mode = "listener" /\ pc = "stamp"
    /\ last_wake' = clock
    /\ stamps' = stamps + 1
    /\ scenario' = ScenarioStamp(scenario, clock)
    /\ Goto("read")
    /\ UNCHANGED <<input, conv, out, err, pipeOpen, clock, raw, pos, reads, calls,
                   loaded, keys, model_name, score, scores, wakes, max_score>>

\* line 68
L_Stamp ==
    /\ mode = "listener" /\ pc = "stamp"
    /\ last_wake' = clock
    /\ stamps' = stamps + 1
    /\ scenario' = ScenarioStamp(scenario, clock)
    /\ Goto("print")
    /\ UNCHANGED <<input, conv, out, err, pipeOpen, clock, raw, pos, reads, calls,
                   loaded, keys, model_name, score, scores, wakes, max_score>>

\* lines 70-71: except (BrokenPipeError, KeyboardInterrupt): pass
L_OnBrokenPipe ==
    /\ Exit(ExitOk, "brokenpipe", FALSE)
    /\ UNCHANGED <<out, wakes>>

\* line 69
L_Print ==
    /\ mode = "listener" /\ pc = "print"
    /\ IF pipeOpen
         THEN /\ out' = Append(out, WakeLine)
              /\ wakes' = Append(wakes, [at |-> last_wake, frame |-> Len(scores)])
              /\ Goto("read")
         ELSE L_OnBrokenPipe
    /\ UNCHANGED <<input, conv, scenario, err, pipeOpen, clock, raw, pos, reads, calls, loaded,
                   keys, model_name, score, scores, last_wake, stamps, max_score>>

ListenerStep ==
    \/ L_Argv
    \/ L_Import
    \/ L_Load
    \/ L_Read
    \/ L_Score
    \/ L_Decide
    \/ L_Stamp
    \/ L_Print

(***************************************************************************)
(* Scoring mode: wake_score_stdin.py, module level and main().             *)
(***************************************************************************)
\* print("MAX ...", flush=True) outside any try: a broken pipe propagates
S_PrintThenExit(v, code, why) ==
    IF pipeOpen
      THEN /\ out' = Append(out, MaxLine(v))
           /\ Exit(code, why, FALSE)
           /\ UNCHANGED err
      ELSE /\ Crash(ExitError, why)
           /\ UNCHANGED out

\* lines 10-11
S_Import ==
    /\ mode = "scoring" /\ pc = "import"
    /\ \/ Goto("argv") /\ UNCHANGED err
       \/ Crash(ExitError, "importerror")
    /\ UNCHANGED <<input, conv, scenario, out, pipeOpen, clock, locals>>

\* lines 15-17
S_OnNoModelPath == S_PrintThenExit(0, ExitError, "noarg")

\* lines 14-17
S_Argv ==
    /\ mode = "scoring" /\ pc = "argv"
    /\ IF NoModelPath(argv)
         THEN S_OnNoModelPath
         ELSE /\ Goto("load")
              /\ UNCHANGED <<out, err>>
    /\ UNCHANGED <<input, conv, scenario, pipeOpen, clock, locals>>

\* the handler exiting without the MAX line
S_OnLoadError_NoLine ==
    /\ Exit(ExitError, "loadfail", FALSE)
    /\ UNCHANGED <<out, err, loaded, keys, model_name, max_score>>

\* lines 20-22: except Exception
S_OnLoadError ==
    /\ S_PrintThenExit(0, ExitError, "loadfail")
    /\ UNCHANGED <<loaded, keys, model_name, max_score>>

\* lines 18-25
S_Load ==
    /\ mode = "scoring" /\ pc = "load"
    /\ \/ \E ks \in KeyLists :
            /\ loaded' = TRUE
            /\ keys' = ks
            /\ IF Len(ks) = 0
                 THEN /\ Crash(ExitError, "nokeys")
                      /\ UNCHANGED <<model_name, max_score>>
                 ELSE /\ model_name' = ks[1]
                      /\ max_score' = 0
                      /\ Goto("read")
                      /\ UNCHANGED err
            /\ UNCHANGED out
       \/ S_OnLoadError
    /\ UNCHANGED <<input, conv, scenario, pipeOpen, clock, raw, pos, reads, calls, score,
                   scores, last_wake, stamps, wakes>>

\* lines 27-29
S_Read ==
    /\ mode = "scoring" /\ pc = "read"
    /\ raw' = ReadLen(chunk_bytes, stream - pos)
    /\ pos' = pos + raw'
    /\ reads' = reads + 1
    /\ IF ShortRead(raw')
         THEN Goto("print")
         ELSE Goto("score")
    /\ UNCHANGED <<input, conv, scenario, out, err, pipeOpen, clock, calls, loaded, keys,
                   model_name, score, scores, last_wake, stamps, wakes, max_score>>

\* lines 30-37
S_Score ==
    /\ mode = "scoring" /\ pc = "score"
    /\ IF SampleCount(raw) # FrameSamples
         THEN /\ Goto("read")
              /\ UNCHANGED <<err, calls, score, scores, max_score>>
         ELSE /\ calls' = Append(calls, [off |-> pos - raw, len |-> raw])
              /\ \/ \E pred \in Predictions :
                      /\ score' = Get(pred, model_name)
                      /\ scores' = Append(scores, score')
                      /\ max_score' = FoldMax(score', max_score)
                      /\ Goto("read")
                      /\ UNCHANGED err
                 \/ /\ Crash(ExitError, "frameexc")
                    /\ UNCHANGED <<score, scores, max_score>>
    /\ UNCHANGED <<input, conv, scenario, out, pipeOpen, clock, raw, pos, reads, loaded, keys,
                   model_name, last_wake, stamps, wakes>>

\* the last score printed instead of the running maximum
S_Print_LastScore ==
    /\ mode = "scoring" /\ pc = "print"
    /\ S_PrintThenExit(score, ExitOk, "eof")
    /\ UNCHANGED <<input, conv, scenario, pipeOpen, clock, locals>>

\* line 38
S_Print ==
    /\ mode = "scoring" /\ pc = "print"
    /\ S_PrintThenExit(max_score, ExitOk, "eof")
    /\ UNCHANGED <<input, conv, scenario, pipeOpen, clock, locals>>

ScoringStep ==
    \/ S_Import
    \/ S_Argv
    \/ S_Load
    \/ S_Read
    \/ S_Score
    \/ S_Print

(***************************************************************************)
(* Sample Converter: lines 60-64 of wake_listener.py and 30-33 of          *)
(* wake_score_stdin.py, applied to one sample (two bytes) of a full block. *)
(* A float32 value is kept as the exact fraction num / den.                *)
(***************************************************************************)
ByteValues == 256           \* a byte is one of 0..255
Int16Modulus == 65536       \* 2^16
Int16Min == -32768
Int16Max == 32767
SampleScale == 32768        \* / 32768.0
Float32Exact == 16777216    \* 2^24: integers up to here are exact in float32

Bytes == 0..(ByteValues - 1)

\* the two bytes read as an unsigned 16-bit integer
Int16LE_Unsigned(l, h) == l + ByteValues * h

\* np.frombuffer(raw, dtype=np.int16): little-endian two's complement
Int16LE(l, h) ==
    LET u == l + ByteValues * h
    IN  IF u > Int16Max THEN u - Int16Modulus ELSE u

\* samples.astype(np.float32)
AsType(n) == [num |-> n, den |-> 1]

\* ... / 32768.0
Divide(x, d) == [num |-> x.num, den |-> x.den * d]

\* a full block has just been read; lo and hi are the bytes of one of its samples
ConvInit ==
    /\ mode \in Modes
    /\ argv = <<"prog", "hey_jeeves.onnx">>
    /\ stream = chunk_bytes
    /\ clock = 0
    /\ pc = "frombuffer"
    /\ status = NotExited
    /\ cause = "none"
    /\ unhandled = FALSE
    /\ out = <<>>
    /\ err = <<>>
    /\ pipeOpen = TRUE
    /\ raw = ReadLen(chunk_bytes, stream)
    /\ pos = raw
    /\ reads = 1
    /\ calls = <<>>
    /\ loaded = TRUE
    /\ keys = <<"hey_jeeves">>
    /\ model_name = "hey_jeeves"
    /\ score = 0
    /\ scores = <<>>
    /\ last_wake = 0
    /\ stamps = 0
    /\ wakes = <<>>
    /\ max_score = 0
    /\ scenario = ScenarioStart
    /\ lo \in Bytes /\ hi \in Bytes
    /\ samples = 0
    /\ samples_f = [num |-> 0, den |-> 1]

\* line 60 / line 30
Conv_FromBuffer ==
    /\ pc = "frombuffer"
    /\ SampleCount(raw) = FrameSamples
    /\ samples' = Int16LE(lo, hi)
    /\ pc' = "astype"
    /\ UNCHANGED <<input, scenario, status, cause, unhandled, out, err,
                   pipeOpen, clock, locals, lo, hi, samples_f>>

\* line 64 / line 33, the cast
Conv_AsType ==
    /\ pc = "astype"
    /\ samples_f' = AsType(samples)
    /\ pc' = "divide"
    /\ UNCHANGED <<input, scenario, status, cause, unhandled, out, err,
                   pipeOpen, clock, locals, lo, hi, samples>>

\* line 64 / line 33, the division
Conv_Divide ==
    /\ pc = "divide"
    /\ samples_f' = Divide(samples_f, SampleScale)
    /\ pc' = "converted"
    /\ UNCHANGED <<input, scenario, status, cause, unhandled, out, err,
                   pipeOpen, clock, locals, lo, hi, samples>>

ConvNext ==
    \/ Conv_FromBuffer
    \/ Conv_AsType
    \/ Conv_Divide

SpecConv == ConvInit /\ [][ConvNext]_vars

Next ==
    \/ ListenerStep
    \/ ScoringStep
    \/ Tick
    \/ ClosePipe
    \/ Interrupt

Spec == Init /\ [][Next]_vars

\* the interpreter keeps executing the program while it has not exited
FairSpec == Spec /\ WF_vars(ListenerStep \/ ScoringStep)

(***************************************************************************)
(* Properties.                                                             *)
(***************************************************************************)
WakeCount == Len(wakes)

\* the largest element of a non-empty sequence of scores
SeqMax(s) == CHOOSE m \in Range(s) : \A x \in Range(s) : x <= m

\* C1: listener mode, debounce: the last_wake values of any two consecutive
\* WAKE lines are at least debounce_seconds apart, however many frames in
\* between scored at or above the threshold.
C1_Debounce ==
    mode = "listener" =>
        /\ Len(out) = WakeCount
        /\ \A i \in 1..(WakeCount - 1) :
              wakes[i + 1].at - wakes[i].at >= debounce_seconds

\* two WAKE lines with a suppressed frame at or above the threshold between them
C1_Witness ==
    /\ mode = "listener"
    /\ WakeCount = 2
    /\ wakes[2].frame = wakes[1].frame + 2
    /\ scores[wakes[1].frame + 1] >= threshold
    /\ out = <<WakeLine, WakeLine>>

\* C2: listener mode, threshold: every WAKE line was written for a scored frame
\* whose active-keyword score is at least the threshold; none for a score
\* strictly below it, whatever the clock and last_wake are.
C2_Threshold ==
    mode = "listener" =>
        \A i \in 1..WakeCount :
            /\ wakes[i].frame \in 1..Len(scores)
            /\ scores[wakes[i].frame] >= threshold

\* a frame scoring just below the threshold was decided with the debounce
\* interval elapsed, after an earlier WAKE, and no WAKE was written for it
C2_Witness ==
    /\ mode = "listener"
    /\ pc = "read"
    /\ WakeCount = 1
    /\ Len(scores) > wakes[1].frame
    /\ scores[Len(scores)] = threshold - 1
    /\ clock - last_wake >= debounce_seconds
    /\ out = <<WakeLine>>

\* C3: scoring mode, running maximum: when the model loaded and the input
\* stream ended, the printed MAX value is the maximum of the scores of all
\* scored frames, and 0.0 when no frame was scored.
C3_RunningMax ==
    (mode = "scoring" /\ pc = "exited" /\ cause = "eof" /\ ~unhandled) =>
        out = <<MaxLine(IF scores = <<>> THEN 0 ELSE SeqMax(scores))>>

\* a finished run whose largest score is not the last one
C3_Witness ==
    /\ mode = "scoring" /\ pc = "exited" /\ cause = "eof"
    /\ Len(scores) = 3
    /\ scores[2] > scores[3] /\ scores[2] > scores[1] /\ scores[3] > 0
    /\ out = <<MaxLine(scores[2])>>

\* how the read loop ended
StreamEnded ==
    \/ mode = "listener" /\ cause = "eof"
    \/ mode = "scoring" /\ (pc = "print" \/ cause = "eof")

\* the run was ended neither by a signal nor by a closed output pipe
Undisturbed == cause # "interrupt" /\ pipeOpen

\* C4: scoring mode writes nothing to the primary output while frames are
\* read and scored, and every run that entered the read loop and was not cut
\* short by a signal or a closed pipe ends with exactly one MAX line written.
C4_ExactlyOneMaxLine ==
    (mode = "scoring" /\ model_name # "unset") =>
        /\ pc # "exited" => out = <<>>
        /\ (pc = "exited" /\ Undisturbed) =>
              (Len(out) = 1 /\ out[1][1] = "MAX")

\* C5: both modes: every block handed to the scorer is exactly chunk_bytes
\* consecutive input bytes, the blocks are scored once each in stream order,
\* and when the stream has ended the scorer was called stream \div chunk_bytes
\* times, the trailing stream % chunk_bytes bytes being consumed unscored.
C5_WholeFramesOnly ==
    /\ \A i \in 1..Len(calls) :
          /\ calls[i].len = chunk_bytes
          /\ calls[i].off = (i - 1) * chunk_bytes
          /\ SampleCount(calls[i].len) = FrameSamples
    /\ Len(calls) <= stream \div chunk_bytes
    /\ StreamEnded =>
          /\ Len(calls) = stream \div chunk_bytes
          /\ Len(scores) = Len(calls)
          /\ pos = stream
          /\ raw = stream % chunk_bytes

\* a stream of two frames and a partial third ended with two scorer calls
C5_Witness ==
    /\ mode = "listener" /\ cause = "eof"
    /\ stream = 2 * chunk_bytes + (chunk_bytes - 1)
    /\ Len(calls) = 2
    /\ raw = chunk_bytes - 1

\* the command line carries no model path (none, or an empty one)
ArgMissing == Len(argv) = 1 \/ argv[2] = ""

FailedToConstruct == cause \in {"importerror", "loadfail"}

\* C7 as stated: when constructing the scorer fails the process exits non-zero
\* having reported an error, and never reads the input or calls the scorer.
C7_LoadFailureReported ==
    FailedToConstruct =>
        /\ pc = "exited" /\ status # ExitOk
        /\ err # <<>>
        /\ reads = 0 /\ calls = <<>>

\* C7 amended: when constructing the scorer fails the process exits with
\* status 1 and never reads the input or calls the scorer; listener mode
\* reports it with one WAKE_LISTENER_ERROR diagnostic on the error channel and
\* nothing on the primary output; scoring mode reports a failed import by its
\* traceback and a failed model construction by no diagnostic at all (its only
\* output is the MAX 0.0 line).
C7_LoadFailureFailsFast ==
    FailedToConstruct =>
        /\ pc = "exited" /\ status = ExitError
        /\ reads = 0 /\ pos = 0 /\ calls = <<>> /\ scores = <<>> /\ ~loaded
        /\ mode = "listener" =>
              /\ out = <<>> /\ ~unhandled
              /\ err = <<IF cause = "loadfail" THEN ErrLoad ELSE ErrInstall>>
        /\ (mode = "scoring" /\ cause = "importerror") =>
              (out = <<>> /\ err = <<Traceback>>)
        /\ (mode = "scoring" /\ cause = "loadfail" /\ ~unhandled) =>
              err = <<>>

\* listener mode has reported a failed model construction and exited
C7_Witness ==
    /\ mode = "listener" /\ cause = "loadfail" /\ pc = "exited"
    /\ status = ExitError /\ err = <<ErrLoad>>
    /\ stream >= chunk_bytes /\ reads = 0

\* C8: scoring mode, model load error: the run exits non-zero and, stdout being
\* open, its primary output is exactly the one line MAX 0.0.
C8_LoadErrorMaxZero ==
    (mode = "scoring" /\ cause = "loadfail") =>
        /\ pc = "exited" /\ status # ExitOk
        /\ ~unhandled => out = <<MaxLine(0)>>
        /\ unhandled => (~pipeOpen /\ out = <<>>)

\* scoring mode has answered a failed model construction with MAX 0.0
C8_Witness ==
    /\ mode = "scoring" /\ cause = "loadfail" /\ pc = "exited"
    /\ ~ArgMissing
    /\ status = ExitError /\ out = <<MaxLine(0)>> /\ ~unhandled

\* C9: listener mode: an exception raised while a frame is converted or scored
\* is caught, one diagnostic goes to the error channel and none to the primary
\* output, the process exits with status 1, and the failing call is the last
\* thing the loop did: no later read, scorer call or WAKE.
C9_FrameExceptionFatal ==
    (mode = "listener" /\ cause = "frameexc") =>
        /\ pc = "exited" /\ status = ExitError /\ ~unhandled
        /\ err = <<ErrFrame>>
        /\ \A i \in 1..Len(out) : out[i] = WakeLine
        /\ Len(calls) = Len(scores) + 1
        /\ reads = Len(calls)
        /\ pos = reads * chunk_bytes
        /\ Len(out) = WakeCount
        /\ \A i \in 1..WakeCount : wakes[i].frame <= Len(scores)

\* a frame raised after a WAKE had been written and with frames still unread
C9_Witness ==
    /\ mode = "listener" /\ cause = "frameexc" /\ pc = "exited"
    /\ out = <<WakeLine>>
    /\ stream - pos >= chunk_bytes
    /\ err = <<ErrFrame>> /\ status = ExitError

FatalCondition == cause \in {"importerror", "loadfail", "nokeys", "frameexc"}

\* C10: both modes: no run that met a fatal condition (missing dependency,
\* model load failure, empty keyword set, per-frame exception) with its stdout
\* open ends by an exception propagating out of the program.
C10_NoUnhandledException ==
    (FatalCondition /\ pipeOpen) => ~unhandled

\* C11: an interrupt signal arriving once the read loop has been entered
\* (blocked on a read, scoring, emitting) ends the run silently in both modes:
\* no exception propagates and nothing is written to the error channel.
C11_InterruptSilent ==
    (cause = "interrupt" /\ model_name # "unset") =>
        (~unhandled /\ err = <<>>)

\* C12: listener mode: the primary output holds nothing but WAKE lines, and
\* each diagnostic (missing argument, missing dependency, model load failure,
\* per-frame exception) is on the error channel alone.
C12_PrimaryChannelPurity ==
    mode = "listener" =>
        /\ \A i \in 1..Len(out) : out[i] = <<"WAKE">>
        /\ cause = "noarg" => (err = <<ErrNeedPath>> /\ out = <<>>)
        /\ cause = "importerror" => (err = <<ErrInstall>> /\ out = <<>>)
        /\ cause = "loadfail" => (err = <<ErrLoad>> /\ out = <<>>)
        /\ cause = "frameexc" => err = <<ErrFrame>>
        /\ \A i \in 1..Len(err) : err[i] # "WAKE"

\* a per-frame exception was reported after two WAKE lines
C12_Witness ==
    /\ mode = "listener" /\ cause = "frameexc"
    /\ out = <<<<"WAKE">>, <<"WAKE">>>>
    /\ err = <<ErrFrame>>

\* the run has followed Scenario B to its end and the last frame is done
ScenarioDone ==
    /\ mode = "listener"
    /\ scenario.k = ScenarioFrames
    /\ pc = "read" \/ (pc = "exited" /\ cause = "eof")

\* C13: Scenario B: with the score 0.6 for the frames processed at t = 0 s,
\* 1 s and 3 s and below the threshold for every other frame, exactly two
\* WAKE lines are written, for the first and the third frame.
C13_ScenarioB ==
    ScenarioDone =>
        /\ out = <<WakeLine, WakeLine>>
        /\ WakeCount = 2 /\ wakes[1].frame = 1 /\ wakes[2].frame = 3

\* the largest of 0 and the scores of the first n frames
ExpectedMax(n, sc) ==
    LET S == {sc[i] : i \in 1..n} \cup {0}
    IN  CHOOSE m \in S : \A x \in S : x <= m

\* C14: scoring mode is deterministic: the MAX value of a run that reached
\* the end of its stream is a function of the stream (its number of whole
\* frames) and of the scorer's outputs on those frames alone, whatever the
\* clock and the timing of the run were.
C14_Deterministic ==
    (mode = "scoring" /\ pc = "exited" /\ cause = "eof" /\ ~unhandled) =>
        /\ Len(scores) = stream \div chunk_bytes
        /\ out = <<MaxLine(ExpectedMax(stream \div chunk_bytes, scores))>>

\* a run over three frames and a partial one, finished late on the clock
C14_Witness ==
    /\ mode = "scoring" /\ pc = "exited" /\ cause = "eof"
    /\ stream = MaxFrames * chunk_bytes + 1
    /\ clock = MaxClock
    /\ scores[1] = ScenarioScore /\ scores[MaxFrames] = threshold - 1
    /\ out = <<MaxLine(ScenarioScore)>>

Abs(n) == IF n < 0 THEN -n ELSE n

\* C15: Sample Converter: a full block yields FrameSamples values, and each
\* is the signed 16-bit little-endian sample divided by 32768, exactly (no
\* rounding, no clipping), hence within [-1.0, 1.0].
C15_Converter ==
    /\ pc \in {"frombuffer", "astype", "divide", "converted"} =>
          /\ raw = chunk_bytes
          /\ SampleCount(raw) = FrameSamples
    /\ pc \in {"astype", "divide", "converted"} =>
          /\ samples \in Int16Min..Int16Max
          /\ (samples - (lo + ByteValues * hi)) % Int16Modulus = 0
    /\ pc = "converted" =>
          /\ samples_f.num = samples
          /\ samples_f.den = SampleScale
          /\ Abs(samples_f.num) <= Float32Exact
          /\ -samples_f.den <= samples_f.num
          /\ samples_f.num <= samples_f.den

\* the most negative sample, bytes 00 80, has become -1.0
C15_Witness ==
    /\ pc = "converted"
    /\ lo = 0 /\ hi = 128
    /\ samples_f = [num |-> -32768, den |-> 32768]

\* C16: listener mode, once per scored frame: the frame goes on to assign
\* last_wake and write WAKE exactly when score >= threshold and
\* clock - last_wake >= debounce_seconds (both inclusive); last_wake then
\* becomes the current time and the WAKE line follows; for every other frame
\* neither channel nor last_wake changes.  Nothing else changes last_wake or
\* the primary output.
C16_TransitionRule ==
    [][ mode = "listener" =>
          /\ (pc = "decide" /\ pc' \in {"stamp", "read"}) =>
                /\ (pc' = "stamp") <=>
                      (score >= threshold /\ clock - last_wake >= debounce_seconds)
                /\ UNCHANGED <<out, err, last_wake>>
          /\ (pc = "stamp" /\ pc' = "print") =>
                (last_wake' = clock /\ UNCHANGED <<out, err>>)
          /\ (pc = "print" /\ pc' = "read") =>
                (out' = Append(out, <<"WAKE">>) /\ UNCHANGED <<err, last_wake>>)
          /\ last_wake' # last_wake => (pc = "stamp" /\ pc' = "print")
          /\ out' # out => (pc = "print" /\ pc' = "read")
      ]_vars

\* a second WAKE exactly debounce_seconds after the first, for a frame scoring
\* exactly the threshold
C16_Witness ==
    /\ mode = "listener" /\ WakeCount = 2
    /\ wakes[2].at - wakes[1].at = debounce_seconds
    /\ scores[wakes[2].frame] = threshold
    /\ Len(out) = 2

\* C17 as stated: the number of assignments to last_wake equals the number
\* of WAKE lines written, in every state outside the assignment-and-print
\* pair itself, a run ended by a failing write included.
C17_StampsEqualWakes ==
    (mode = "listener" /\ pc # "print") => stamps = Len(out)

\* C17 amended: last_wake is assigned only by the wake transition, immediately
\* before the WAKE line is written: the number of assignments equals the
\* number of WAKE lines or exceeds it by one, and it exceeds it only between
\* the assignment and the print, or when the run ended at that print (broken
\* pipe or interrupt).
C17_StampBeforeWake ==
    mode = "listener" =>
        /\ stamps \in {Len(out), Len(out) + 1}
        /\ stamps = Len(out) + 1 =>
              \/ pc = "print"
              \/ pc = "exited" /\ cause \in {"brokenpipe", "interrupt"}
        /\ stamps = 0 => last_wake = 0
        /\ (stamps = Len(out) /\ stamps > 0) => last_wake = wakes[stamps].at

\* a run ended by a broken pipe with last_wake assigned for the unwritten WAKE
C17_Witness ==
    /\ mode = "listener" /\ pc = "exited" /\ cause = "brokenpipe"
    /\ stamps = 2 /\ Len(out) = 1
    /\ last_wake > wakes[1].at

\* C18: scoring mode: max_score starts at 0.0, equals the largest of 0.0 and
\* all scores seen after each scored frame, never decreases, and is left alone
\* by a frame whose score does not exceed it.
C18_MaxLoopInvariant ==
    /\ mode = "scoring" => max_score = 0
    /\ [][ mode = "scoring" =>
             /\ max_score' >= max_score
             /\ max_score' = ExpectedMax(Len(scores'), scores')
             /\ (scores' # scores /\ score' <= max_score) =>
                   max_score' = max_score
         ]_vars

\* a second frame scored below the running maximum and left it alone
C18_Witness ==
    /\ mode = "scoring" /\ pc = "read"
    /\ Len(scores) = 2
    /\ scores[1] = ScenarioScore /\ scores[2] = threshold
    /\ max_score = ScenarioScore

\* what holds of the reader in every state
ReaderSafety ==
    /\ reads <= stream \div chunk_bytes + 1
    /\ pos <= stream
    /\ StreamEnded =>
          /\ reads = stream \div chunk_bytes + 1
          /\ raw = stream % chunk_bytes
          /\ pos = stream
          /\ Len(calls) = reads - 1
    /\ (mode = "listener" /\ cause = "eof") =>
          (pc = "exited" /\ status = ExitOk /\ err = <<>> /\ ~unhandled)
    /\ (mode = "scoring" /\ cause = "eof" /\ ~unhandled) =>
          (status = ExitOk /\ Len(out) = 1 /\ err = <<>>)

\* C19: both modes: the read that returns fewer than chunk_bytes bytes is the
\* last read and ends the loop at once, its bytes are dropped; listener mode
\* then exits normally with nothing on the error channel, scoring mode prints
\* its MAX line; and every run on a finite stream eventually leaves the loop
\* and ends.
C19_ReaderTerminates ==
    /\ []ReaderSafety
    /\ <>(pc = "exited")

\* scoring mode has left the loop on a one-byte read after the whole frames
C19_Witness ==
    /\ mode = "scoring" /\ pc = "print"
    /\ stream = MaxFrames * chunk_bytes + 1
    /\ raw = 1 /\ reads = MaxFrames + 1
    /\ Len(calls) = MaxFrames

\* the frames that scored at least the threshold
HighFrames == {i \in 1..Len(scores) : scores[i] >= threshold}

\* C20: listener mode: the initial last_wake = 0.0 never suppresses a trigger:
\* once the first frame scoring at least the threshold has been processed, a
\* WAKE has been written for it, whatever the clock read.
C20_FirstTriggerEmits ==
    (mode = "listener" /\ pc = "read" /\ HighFrames # {}) =>
        /\ WakeCount >= 1
        /\ \A i \in HighFrames : wakes[1].frame <= i

====
